---- MODULE Spec2Model ----
(***************************************************************************)
(* Model of smartobjects-js: Command (src/src/command.js) and DataContext  *)
(* (src/src/datacontext.js).                                               *)
(*                                                                         *)
(* JavaScript is single threaded: every action below is one task of the    *)
(* event loop (an API call by a client, a timer callback, the completion   *)
(* of a result handle) and runs to completion.  jQuery Deferred callbacks  *)
(* run synchronously inside the task that settles the Deferred.            *)
(***************************************************************************)
EXTENDS Integers, Sequences, FiniteSets, TLC

(* ------------------------------ bounds --------------------------------- *)
\* number of execute()/tryExecute() calls made by clients in one behaviour
MaxCalls == 2
\* the same, in the behaviours checked for liveness
MaxLiveCalls == 1
\* client calls of the command owned by a DataContext
MaxOwnedCalls == 2
\* direct invocations of command.action by clients
MaxActionCalls == 3
\* nested calls the JavaScript call stack takes before a RangeError
MaxStack == 6
\* listeners a controller creates, view models it is given
MaxAttaches == 4
MaxViewModels == 3

(* ----------------------------- constants ------------------------------- *)
\* null / undefined handle
Null == 0
\* outcome recorded for a call that threw synchronously
Threw == -1

\* What the user supplied action does when it is invoked.
Behaviours == {"value", "throw", "pending", "resolved", "rejected"}

\* Orders in which Command.ext modifiers can be applied by the constructor
\* (_.forOwn over the config keys); the last one applied is the outermost.
LayerConfigs ==
    { <<>>, <<"once">>, <<"debounce">>,
      <<"debounce", "once">>, <<"once", "debounce">> }

VARIABLES
    layers,          \* Command.ext modifiers applied at construction, in order
    hasCondition,    \* config.canExecute was supplied
    condVal,         \* what the user's canExecute predicate currently returns
    isRunning,       \* Command._isRunning
    promise,         \* Command._promise (in-flight result handle or Null)
    debouncedResult, \* Command._debouncedResult (Deferred or Null)
    executed,        \* closure variable of Command.ext.once
    heap,            \* the Deferreds created so far: state and callbacks
    log,             \* notifications emitted by the Command, and action calls
    finishTimers,    \* pending setTimeout(() => _finishExecute()) callbacks
    debTimer,        \* the _.debounce timer is pending
    invocations,     \* invocations of the user supplied (original) action
    successes,       \* successful completions of it since the last resetOnce
    outcomes,        \* how each invocation of it ended, in order of completion
    fault,           \* an uncaught TypeError (null dereference) happened
    finishedSaw,     \* what listeners of 'finished' found in isRunning, promise
    calls            \* what each client call observed

VARIABLES
    validating,      \* DataContext._validating, per instance
    slots,           \* the stored value of each property, per instance
    errs,            \* Error Collector: the keys that have errors, per instance
    trace,           \* what the last task did to subscribers and flags, in order
    dcOp,            \* the last DataContext operation and how it ended
    cmdIvar,         \* the parent's this._cmd: the Command created (or Null)
    returned         \* the Commands the parent's cmd getter has returned

VARIABLES
    registry,        \* dataContext$properties of each type, for one name
    lastDecl         \* the last declaration and whether it was rejected

regVars == << registry, lastDecl >>

VARIABLES
    ctl,             \* a controller component and its view models' listeners
    ctlOp            \* the controller's last step and whether it warned

ctlVars == << ctl, ctlOp >>

VARIABLES
    declared,        \* a type's own declaration: each property's dependent list
    held,            \* the values an instance of that type holds
    fireOp           \* the last assignment on it: events emitted, how it ended

depVars == << declared, held, fireOp >>

dcVars == << validating, slots, errs, trace, dcOp, cmdIvar, returned, regVars,
            ctlVars, depVars >>

cmdVars == << layers, hasCondition, condVal, isRunning, promise,
              debouncedResult, executed, heap, log, finishTimers, debTimer,
              invocations, successes, outcomes, fault, finishedSaw, calls >>

vars == << cmdVars, dcVars >>

(* The part of the state that the Command's code reads and writes,         *)
(* gathered in one record so that handlers compose as functions.           *)
W == [ isRunning |-> isRunning, promise |-> promise,
       debouncedResult |-> debouncedResult, executed |-> executed,
       heap |-> heap, log |-> log, finishTimers |-> finishTimers,
       debTimer |-> debTimer, invocations |-> invocations,
       successes |-> successes, outcomes |-> outcomes, fault |-> fault,
       finishedSaw |-> finishedSaw ]

Apply(w) ==
    /\ isRunning' = w.isRunning
    /\ promise' = w.promise
    /\ debouncedResult' = w.debouncedResult
    /\ executed' = w.executed
    /\ heap' = w.heap
    /\ log' = w.log
    /\ finishTimers' = w.finishTimers
    /\ debTimer' = w.debTimer
    /\ invocations' = w.invocations
    /\ successes' = w.successes
    /\ outcomes' = w.outcomes
    /\ fault' = w.fault
    /\ finishedSaw' = w.finishedSaw

(* ------------------------- EventEmitter.emit --------------------------- *)
\* Listeners are observers: the model records what they are told and, for
\* 'finished', what they find when they read isRunning and promise.
Emit(w, event) ==
    [w EXCEPT !.log = Append(@, event),
              !.finishedSaw =
                 IF event = "finished"
                 THEN @ \cup {[isRunning |-> w.isRunning, promise |-> w.promise]}
                 ELSE @]

\* notifyCanExecute()
notifyCanExecute(w) == Emit(w, "canExecute")

\* An uncaught TypeError: the rest of the running callback chain is skipped.
Fault(w) == [w EXCEPT !.fault = TRUE]

(* --------------------------- jQuery Deferred --------------------------- *)
\* $.Deferred(): a new Deferred in the given state.  orig marks the handles
\* returned by the user supplied action (settled by the environment), abort
\* the handles that have an abort method (such as a jqXHR).
NewDeferred(w, st, isOrig) ==
    [w EXCEPT !.heap = Append(@, [state |-> st, cbs |-> <<>>, orig |-> isOrig,
                                  abort |-> FALSE])]

LastId(w) == Len(w.heap)

\* does a callback registered with done/fail/always run for this outcome
Matches(on, st) ==
    \/ on = "always" /\ st \in {"resolved", "rejected"}
    \/ on = "done" /\ st = "resolved"
    \/ on = "fail" /\ st = "rejected"

\* bookkeeping: an invocation of the user supplied action ended
Completed(w, st) ==
    [w EXCEPT !.outcomes = Append(@, st),
              !.successes = IF st = "resolved" THEN @ + 1 ELSE @]

RECURSIVE RunCb(_, _)
RECURSIVE RunCbs(_, _, _)
RECURSIVE Settle(_, _, _)

\* variant: the completion callback forgets to reset _isRunning
FinishCallback_KeepsRunning(w) ==
    LET w1 == [w EXCEPT !.promise = Null]
    IN  Emit(notifyCanExecute(w1), "finished")

\* the always-callback registered by _finishExecute
FinishCallback(w) ==
    LET w1 == [w EXCEPT !.promise = Null, !.isRunning = FALSE]
    IN  Emit(notifyCanExecute(w1), "finished")

\* the callbacks this code base registers on result handles
RunCb(w, cb) ==
    IF w.fault THEN w
    ELSE CASE cb = "finish" -> FinishCallback(w)
           [] cb = "onceDone" -> [w EXCEPT !.executed = TRUE]
           [] cb = "debResolve" ->
                 IF w.debouncedResult = Null THEN Fault(w)
                 ELSE Settle(w, w.debouncedResult, "resolved")
           [] cb = "debReject" ->
                 IF w.debouncedResult = Null THEN Fault(w)
                 ELSE Settle(w, w.debouncedResult, "rejected")
           [] cb = "debClear" -> [w EXCEPT !.debouncedResult = Null]

RunCbs(w, cbs, st) ==
    IF cbs = <<>> THEN w
    ELSE LET c == Head(cbs)
             w1 == IF Matches(c.on, st) THEN RunCb(w, c.cb) ELSE w
         IN  RunCbs(w1, Tail(cbs), st)

\* deferred.resolve() / deferred.reject(): no effect once settled
Settle(w, h, st) ==
    IF w.heap[h].state # "pending" THEN w
    ELSE LET cbs == w.heap[h].cbs
             w0 == [w EXCEPT !.heap[h].state = st, !.heap[h].cbs = <<>>]
             w1 == IF w.heap[h].orig THEN Completed(w0, st) ELSE w0
         IN  RunCbs(w1, cbs, st)

\* promise.done(f) / .fail(f) / .always(f): runs f at once when the
\* Deferred is already settled that way
AddCallback(w, h, on, cb) ==
    IF w.heap[h].state = "pending"
    THEN [w EXCEPT !.heap[h].cbs = Append(@, [on |-> on, cb |-> cb])]
    ELSE IF Matches(on, w.heap[h].state) THEN RunCb(w, cb) ELSE w

(* ------------------------------ results -------------------------------- *)
\* what a function call produced: a plain value, a result handle, or a throw
ValueRes == [kind |-> "value", h |-> Null]
ThrowRes == [kind |-> "throw", h |-> Null]
HandleRes(h) == [kind |-> "handle", h |-> h]

\* the user supplied action (config.execute)
OrigAction(w, beh) ==
    LET w1 == [w EXCEPT !.invocations = @ + 1]
    IN  CASE beh = "value" ->
               [w |-> Completed(w1, "resolved"), res |-> ValueRes]
          [] beh = "throw" ->
               [w |-> Completed(w1, "rejected"), res |-> ThrowRes]
          [] beh = "pending" ->
               LET w2 == NewDeferred(w1, "pending", TRUE)
               IN  [w |-> w2, res |-> HandleRes(LastId(w2))]
          [] beh = "resolved" ->
               LET w2 == NewDeferred(Completed(w1, "resolved"), "resolved", TRUE)
               IN  [w |-> w2, res |-> HandleRes(LastId(w2))]
          [] beh = "rejected" ->
               LET w2 == NewDeferred(Completed(w1, "rejected"), "rejected", TRUE)
               IN  [w |-> w2, res |-> HandleRes(LastId(w2))]
          [] beh = "cancellable" ->
               LET w2 == NewDeferred(w1, "pending", TRUE)
                   w3 == [w2 EXCEPT !.heap[LastId(w2)].abort = TRUE]
               IN  [w |-> w3, res |-> HandleRes(LastId(w3))]

(* ---------------------------- Command.ext ------------------------------- *)
\* position of a modifier in the order of application (0: not configured)
LayerIndex(name) ==
    IF \E i \in 1..Len(layers) : layers[i] = name
    THEN CHOOSE i \in 1..Len(layers) : layers[i] = name
    ELSE 0

RECURSIVE InvokeLayer(_, _, _)

\* variant: only a synchronous return marks the command as executed
OnceAction_SyncOnly(w, i, beh) ==
    LET r == InvokeLayer(w, i - 1, beh)
    IN  CASE r.res.kind = "throw" -> r
          [] r.res.kind = "handle" -> r
          [] r.res.kind = "value" ->
               [w |-> [r.w EXCEPT !.executed = TRUE], res |-> r.res]

\* Command.ext.once: the replacement action
OnceAction(w, i, beh) ==
    LET r == InvokeLayer(w, i - 1, beh)
    IN  CASE r.res.kind = "throw" -> r
          [] r.res.kind = "handle" ->
               [w |-> AddCallback(r.w, r.res.h, "done", "onceDone"), res |-> r.res]
          [] r.res.kind = "value" ->
               [w |-> [r.w EXCEPT !.executed = TRUE], res |-> r.res]

\* Command.ext.debounce: the replacement action
DebounceAction(w) ==
    LET w1 == IF w.debouncedResult = Null
              THEN LET n == NewDeferred(w, "pending", FALSE)
                   IN  [n EXCEPT !.debouncedResult = LastId(n)]
              ELSE w
        w2 == [w1 EXCEPT !.debTimer = TRUE]
    IN  [w |-> w2, res |-> HandleRes(w2.debouncedResult)]

\* command.action as left by the constructor: layer i wraps layer i-1,
\* layer 0 is config.execute
InvokeLayer(w, i, beh) ==
    IF i = 0 THEN OrigAction(w, beh)
    ELSE IF layers[i] = "once" THEN OnceAction(w, i, beh)
    ELSE DebounceAction(w)

\* Command.ext.debounce: the function handed to _.debounce, run by its timer
DebouncedExecute(w, beh) ==
    LET w0 == [w EXCEPT !.debTimer = FALSE]
        r == InvokeLayer(w0, LayerIndex("debounce") - 1, beh)
    IN  CASE r.res.kind = "handle" ->
               LET a == AddCallback(r.w, r.res.h, "done", "debResolve")
                   b == AddCallback(a, r.res.h, "fail", "debReject")
               IN  AddCallback(b, r.res.h, "always", "debClear")
          [] r.res.kind = "value" ->
               IF r.w.debouncedResult = Null THEN Fault(r.w)
               ELSE LET a == Settle(r.w, r.w.debouncedResult, "resolved")
                    IN  [a EXCEPT !.debouncedResult = Null]
          [] r.res.kind = "throw" ->
               IF r.w.debouncedResult = Null THEN Fault(r.w)
               ELSE LET a == Settle(r.w, r.w.debouncedResult, "rejected")
                    IN  [a EXCEPT !.debouncedResult = Null]

(* ------------------------------ Command -------------------------------- *)
\* variant: once refuses after any invocation of the action, failed or not
Condition_AnyInvocation(w) ==
    IF LayerIndex("once") # 0
    THEN ~w.executed /\ w.outcomes = <<>> /\ (~hasCondition \/ condVal)
    ELSE (hasCondition => condVal)

\* this._canExecute: config.canExecute, or the replacement made by ext.once
Condition(w) ==
    IF LayerIndex("once") # 0
    THEN ~w.executed /\ (~hasCondition \/ condVal)
    ELSE (hasCondition => condVal)

\* variant: the guard does not look at isRunning
canExecute_IgnoresRunning(w) == Condition(w)

\* canExecute()
canExecute(w) ==
    IF w.isRunning THEN FALSE ELSE Condition(w)

\* variant: completion is observed with done() instead of always()
finishExecute_DoneOnly(w) ==
    IF w.promise = Null THEN Fault(w)
    ELSE AddCallback(w, w.promise, "done", "finish")

\* _finishExecute(), run by the timer set in execute()
finishExecute(w) ==
    IF w.promise = Null THEN Fault(w)
    ELSE AddCallback(w, w.promise, "always", "finish")

\* variant: execute() finalizes in its own call stack, without a timer
ScheduleFinish_Inline(w) == finishExecute(w)

\* setTimeout(() => this._finishExecute()): finalization is left to the
\* next scheduling turn
ScheduleFinish(w) == [w EXCEPT !.finishTimers = @ + 1]

\* variant: no try/catch around the action, its exception escapes execute()
RunAction_NoCatch(w, beh) ==
    LET w1 == [w EXCEPT !.isRunning = TRUE]
        w2 == Emit(notifyCanExecute(w1), "started")
        r == InvokeLayer(Emit(w2, "action"), Len(layers), beh)
    IN  CASE r.res.kind = "handle" ->
               [w |-> [r.w EXCEPT !.promise = r.res.h, !.finishTimers = @ + 1],
                out |-> r.res.h]
          [] r.res.kind = "value" ->
               LET n == NewDeferred(r.w, "resolved", FALSE)
               IN  [w |-> [n EXCEPT !.promise = LastId(n), !.finishTimers = @ + 1],
                    out |-> LastId(n)]
          [] r.res.kind = "throw" -> [w |-> r.w, out |-> Threw]

\* execute(), the branch taken when the guard passes
RunAction(w, beh) ==
    LET w1 == [w EXCEPT !.isRunning = TRUE]
        w2 == Emit(notifyCanExecute(w1), "started")
        r == InvokeLayer(Emit(w2, "action"), Len(layers), beh)
        w3 == CASE r.res.kind = "handle" ->
                     [r.w EXCEPT !.promise = r.res.h]
                [] r.res.kind = "value" ->
                     LET n == NewDeferred(r.w, "resolved", FALSE)
                     IN  [n EXCEPT !.promise = LastId(n)]
                [] r.res.kind = "throw" ->
                     LET n == NewDeferred(r.w, "rejected", FALSE)
                     IN  [n EXCEPT !.promise = LastId(n)]
        w4 == ScheduleFinish(w3)
    IN  [w |-> w4, out |-> w4.promise]

\* variant: a refused execute() still announces a canExecute change
execute_NotifiesWhenRefused(w, beh) ==
    IF canExecute(w)
    THEN RunAction(w, beh)
    ELSE [w |-> notifyCanExecute(w), out |-> Threw]

\* execute(): out is the returned handle, or Threw
execute(w, beh) ==
    IF canExecute(w)
    THEN RunAction(w, beh)
    ELSE [w |-> w, out |-> Threw]

\* variant: tryExecute() forwards to execute() without looking at the guard
tryExecute_NoGuard(w, beh) == execute(w, beh)

\* variant: abort() also forgets the in-flight result
abort_ClearsResult(w, sync) ==
    IF w.promise # Null /\ w.heap[w.promise].abort
    THEN LET w1 == Emit(w, "cancel")
             w2 == IF sync THEN Settle(w1, w1.promise, "rejected") ELSE w1
         IN  [w |-> [w2 EXCEPT !.promise = Null], out |-> w.promise]
    ELSE [w |-> w, out |-> w.promise]

\* abort(): out is the returned value.  What the result's own abort method
\* does is not this code's: it completes the result as failed before
\* returning (sync, as a jqXHR in flight does) or only notes the request.
abort(w, sync) ==
    IF w.promise # Null /\ w.heap[w.promise].abort
    THEN LET w1 == Emit(w, "cancel")
             w2 == IF sync THEN Settle(w1, w1.promise, "rejected") ELSE w1
         IN  [w |-> w2, out |-> w2.promise]
    ELSE [w |-> w, out |-> w.promise]

\* tryExecute()
tryExecute(w, beh) ==
    IF canExecute(w)
    THEN execute(w, beh)
    ELSE LET n == NewDeferred(w, "rejected", FALSE)
         IN  [w |-> n, out |-> LastId(n)]

(* ------------------------------ actions -------------------------------- *)
CallRecord(op, r) ==
    [op |-> op, out |-> r.out, passed |-> canExecute(W),
     running |-> isRunning, cond |-> Condition(W), window |-> debTimer]

\* a client calls command.execute()
ExecuteCall ==
    /\ UNCHANGED dcVars
    /\ Len(calls) < MaxCalls
    /\ ~fault
    /\ \E beh \in Behaviours :
          LET r == execute(W, beh)
          IN  /\ Apply(r.w)
              /\ calls' = Append(calls, CallRecord("execute", r))
    /\ UNCHANGED << layers, hasCondition, condVal >>

\* a client calls command.tryExecute()
TryExecuteCall ==
    /\ UNCHANGED dcVars
    /\ Len(calls) < MaxCalls
    /\ ~fault
    /\ \E beh \in Behaviours :
          LET r == tryExecute(W, beh)
          IN  /\ Apply(r.w)
              /\ calls' = Append(calls, CallRecord("tryExecute", r))
    /\ UNCHANGED << layers, hasCondition, condVal >>

\* a client calls command.execute() and the action returns a pending result
\* that has an abort method
ExecuteCancellable ==
    /\ UNCHANGED dcVars
    /\ Len(calls) < MaxCalls
    /\ ~fault
    /\ LET r == execute(W, "cancellable")
       IN  /\ Apply(r.w)
           /\ calls' = Append(calls, CallRecord("execute", r))
    /\ UNCHANGED << layers, hasCondition, condVal >>

\* a client calls command.abort()
AbortCall ==
    /\ UNCHANGED dcVars
    /\ Len(calls) < MaxCalls
    /\ ~fault
    /\ \E sync \in BOOLEAN :
          LET r == abort(W, sync)
          IN  /\ Apply(r.w)
              /\ calls' = Append(calls, CallRecord("abort", r))
    /\ UNCHANGED << layers, hasCondition, condVal >>

\* a client invokes the function returned by the action getter
\* (command.action(...)), which is the action as replaced by the modifiers
ActionCall ==
    /\ UNCHANGED dcVars
    /\ Len(calls) < MaxActionCalls
    /\ ~fault
    /\ \E beh \in Behaviours :
          LET r == InvokeLayer(W, Len(layers), beh)
              out == CASE r.res.kind = "handle" -> r.res.h
                       [] r.res.kind = "value" -> Null
                       [] r.res.kind = "throw" -> Threw
          IN  /\ Apply(r.w)
              /\ calls' = Append(calls, CallRecord("action", [out |-> out]))
    /\ UNCHANGED << layers, hasCondition, condVal >>

\* the next scheduling turn after execute(): setTimeout callback
FinishTimeout ==
    /\ UNCHANGED dcVars
    /\ finishTimers > 0
    /\ ~fault
    /\ Apply(finishExecute([W EXCEPT !.finishTimers = @ - 1]))
    /\ UNCHANGED << layers, hasCondition, condVal, calls >>

\* a pending result handle returned by the user's action completes
ResultSettles ==
    /\ UNCHANGED dcVars
    /\ ~fault
    /\ \E h \in 1..Len(heap), st \in {"resolved", "rejected"} :
          /\ heap[h].orig
          /\ heap[h].state = "pending"
          /\ Apply(Settle(W, h, st))
    /\ UNCHANGED << layers, hasCondition, condVal, calls >>

\* the debounce timeout elapsed with no further invocation
DebounceTimeout ==
    /\ UNCHANGED dcVars
    /\ debTimer
    /\ ~fault
    /\ \E beh \in Behaviours : Apply(DebouncedExecute(W, beh))
    /\ UNCHANGED << layers, hasCondition, condVal, calls >>

\* a client calls command.resetOnce()
ResetOnce ==
    /\ UNCHANGED dcVars
    /\ LayerIndex("once") # 0
    /\ executed
    /\ executed' = FALSE
    /\ successes' = 0
    /\ UNCHANGED << layers, hasCondition, condVal, isRunning, promise,
                    debouncedResult, heap, log, finishTimers, debTimer,
                    invocations, outcomes, fault, finishedSaw, calls >>

\* the state the user's canExecute predicate depends on changes
ConditionChanges ==
    /\ UNCHANGED dcVars
    /\ hasCondition
    /\ condVal' = ~condVal
    /\ UNCHANGED << layers, hasCondition, isRunning, promise, debouncedResult,
                    executed, heap, log, finishTimers, debTimer, invocations,
                    successes, outcomes, fault, finishedSaw, calls >>

(* ============================ DataContext ============================== *)
\* The model's sample types: a parent with a default-storage property a, a
\* property b with its own get/set (and a as dependent), a command cmd (with
\* b as dependent) and two components child and child2; the first child's
\* type has x (own get/set) and y (default), the second child's type has w
\* (default storage, no default value).
Parent == 1
Child == 2
Child2 == 3
Insts == {Parent, Child, Child2}

\* undefined
Undef == 0
\* the value of a component property: the child DataContext
ChildRef == 100
Child2Ref == 101
\* a falsy value other than undefined (0, '', false, null)
Falsy == 3

\* the value is a DataContext (it has validate, isValid, clearErrors)
IsRef(v) == v \in {ChildRef, Child2Ref}

\* the DataContext a component value refers to
Target(v) == IF v = ChildRef THEN Child ELSE Child2

\* the value of a command property: the Command object
CmdRef == 200
\* the values clients write
Values == {1, 2}

\* DataContext.properties(): the declared names, in declaration order
properties(inst) ==
    CASE inst = Parent -> << "a", "b", "cmd", "child", "child2" >>
      [] inst = Child -> << "x", "y" >>
      [] inst = Child2 -> << "w" >>

\* DataContext.property(name): the descriptor registered by _defProperty,
\* command or component
property(inst, name) ==
    CASE name = "a" ->
           [kind |-> "default", writable |-> TRUE, default |-> 1,
            dependent |-> <<>>]
      [] name = "b" ->
           [kind |-> "custom", writable |-> TRUE, default |-> Undef,
            dependent |-> << "a" >>]
      [] name = "cmd" ->
           [kind |-> "command", writable |-> FALSE, default |-> Undef,
            dependent |-> << "b" >>]
      [] name \in {"child", "child2"} ->
           [kind |-> "component", writable |-> TRUE, default |-> Undef,
            dependent |-> <<>>]
      [] name = "w" ->
           [kind |-> "default", writable |-> TRUE, default |-> Undef,
            dependent |-> <<>>]
      [] name = "x" ->
           [kind |-> "custom", writable |-> TRUE, default |-> Undef,
            dependent |-> <<>>]
      [] name = "y" ->
           [kind |-> "default", writable |-> TRUE, default |-> 1,
            dependent |-> <<>>]

\* what a property's user supplied setter does besides storing the value:
\* its validation passes or fails, it throws, it assigns another property
\* of the same instance, or it executes the instance's command
SetterBehaviours == {"valid", "invalid", "throw", "touch", "exec"}

\* a user supplied setter may also refuse the value: its validation fails
\* and it stores nothing
AssignBehaviours == SetterBehaviours \cup {"reject"}

\* the other property a "touch" setter assigns
Touched(inst) == IF inst = Parent THEN "a" ELSE "y"

\* The part of the state DataContext code reads and writes.
D == [validating |-> validating, slots |-> slots, errs |-> errs,
      trace |-> <<>>, cmdIvar |-> cmdIvar, returned |-> returned]

ApplyDC(d) ==
    /\ validating' = d.validating
    /\ slots' = d.slots
    /\ errs' = d.errs
    /\ trace' = d.trace
    /\ cmdIvar' = d.cmdIvar
    /\ returned' = d.returned
    /\ UNCHANGED << regVars, ctlVars, depVars >>

Note(d, kind, inst, name) ==
    [d EXCEPT !.trace = Append(@, [kind |-> kind, inst |-> inst, name |-> name])]

\* the generated getters: makeDefaultRWProperty / makeRWProperty get(), and
\* the command property's get()
Get(d, inst, name) ==
    IF property(inst, name).kind = "command" THEN CmdRef
    ELSE IF d.slots[inst][name] = Undef THEN property(inst, name).default
    ELSE d.slots[inst][name]

RECURSIVE Fire(_, _, _)
RECURSIVE FireDependents(_, _, _)

\* variant: the free function does not compare the old and the new value
firePropertyChange_Always(d, inst, name, newValue, oldValue) ==
    Fire(d, inst, name)

\* the free function firePropertyChange(model, name, newValue, oldValue)
firePropertyChange(d, inst, name, newValue, oldValue) ==
    IF oldValue # newValue THEN Fire(d, inst, name) ELSE d

\* variant: the method does not look at the validating flag
Fire_IgnoresValidating(d, inst, name) ==
    FireDependents(Note(d, "emit", inst, name), inst,
                   property(inst, name).dependent)

\* DataContext.firePropertyChange(name, newValue, oldValue)
Fire(d, inst, name) ==
    IF ~d.validating[inst]
    THEN FireDependents(Note(d, "emit", inst, name), inst,
                        property(inst, name).dependent)
    ELSE Note(d, "suppressed", inst, name)

FireDependents(d, inst, deps) ==
    IF deps = <<>> THEN d
    ELSE FireDependents(
            firePropertyChange(d, inst, Head(deps), Get(d, inst, Head(deps)), Undef),
            inst, Tail(deps))

\* Errors.isValid(key): no error recorded for the key
ErrorsIsValid(d, inst, key) == key \notin d.errs[inst]

\* Errors.isValid(): no error recorded at all
ErrorsAllValid(d, inst) == d.errs[inst] = {}

\* the names of the instance's component properties
Components(inst) ==
    {properties(inst)[i] : i \in {j \in 1..Len(properties(inst)) :
         property(inst, properties(inst)[j]).kind = "component"}}

RECURSIVE isValidOutcome(_, _)
RECURSIVE EveryValid(_, _, _)

\* variant: the iteration ends after the first component
EveryValid_FirstOnly(d, inst, names) ==
    IF names = <<>> THEN "valid"
    ELSE LET name == Head(names)
             value == d.slots[inst][name]
         IN  IF property(inst, name).kind # "component"
             THEN EveryValid(d, inst, Tail(names))
             ELSE IF value = Undef THEN "throws"
             ELSE IF IsRef(value) THEN isValidOutcome(d, Target(value))
             ELSE "valid"

\* DataContext.isValid(), the _.every over the properties: "valid",
\* "invalid" at the first invalid component, or "throws" (TypeError) at a
\* component property that holds undefined
EveryValid(d, inst, names) ==
    IF names = <<>> THEN "valid"
    ELSE LET name == Head(names)
             value == d.slots[inst][name]
         IN  IF property(inst, name).kind # "component"
             THEN EveryValid(d, inst, Tail(names))
             ELSE IF value = Undef THEN "throws"
             ELSE IF IsRef(value)
             THEN IF isValidOutcome(d, Target(value)) = "valid"
                  THEN EveryValid(d, inst, Tail(names))
                  ELSE isValidOutcome(d, Target(value))
             ELSE EveryValid(d, inst, Tail(names))

\* DataContext.isValid() without key: what the call does
isValidOutcome(d, inst) ==
    IF ~ErrorsAllValid(d, inst) THEN "invalid"
    ELSE EveryValid(d, inst, properties(inst))

\* DataContext.isValid() without key returns true
isValid(d, inst) == isValidOutcome(d, inst) = "valid"

\* DataContext.isValid(key)
isValidKey(d, inst, key) == ErrorsIsValid(d, inst, key)

RECURSIVE Set(_, _, _, _, _)

\* a user supplied set(): stores the value and, by behaviour, validates it
\* (clearErrors(key) then check(key, value)), throws, assigns another
\* property or fires the command property's 'execute' event
UserSet(d, inst, name, v, beh) ==
    LET stored == [d EXCEPT !.slots[inst][name] = v]
    IN  CASE beh = "valid" ->
               [d |-> [stored EXCEPT !.errs[inst] = @ \ {name}], threw |-> FALSE]
          [] beh = "invalid" ->
               [d |-> [stored EXCEPT !.errs[inst] = @ \cup {name}], threw |-> FALSE]
          [] beh = "reject" ->
               [d |-> [d EXCEPT !.errs[inst] = @ \cup {name}], threw |-> FALSE]
          [] beh = "throw" -> [d |-> d, threw |-> TRUE]
          [] beh = "touch" ->
               Set(stored, inst, Touched(inst), 2, "valid")
          [] beh = "exec" ->
               [d |-> IF inst = Parent THEN Fire(stored, inst, "cmd") ELSE stored,
                threw |-> FALSE]

\* the generated setters: makeDefaultRWProperty / makeRWProperty set()
Set(d, inst, name, v, beh) ==
    LET oldValue == d.slots[inst][name]
    IN  IF property(inst, name).kind = "custom"
        THEN LET r == UserSet(d, inst, name, v, beh)
             IN  IF r.threw THEN r
                 ELSE [d |-> firePropertyChange(r.d, inst, name, v, oldValue),
                       threw |-> FALSE]
        ELSE [d |-> firePropertyChange([d EXCEPT !.slots[inst][name] = v],
                                       inst, name, v, oldValue),
              threw |-> FALSE]

RECURSIVE FireAll(_, _, _)

\* variant: only the first changed property is re-fired
FireAll_OnlyFirst(d, inst, names) ==
    IF names = <<>> THEN d ELSE Fire(d, inst, Head(names))

\* validate(), the finally block's loop: re-fire each changed property
FireAll(d, inst, names) ==
    IF names = <<>> THEN d
    ELSE FireAll(Fire(d, inst, Head(names)), inst, Tail(names))

RECURSIVE validate(_, _, _)
RECURSIVE ValidateProps(_, _, _, _, _)

\* validate(), the loop over the properties; stops at the first exception
\* (a setter's, or the TypeError at a component property that holds
\* undefined); a component property that holds something else than a
\* DataContext is handled as a writable property
ValidateProps(d, inst, names, changed, behs) ==
    IF names = <<>> THEN [d |-> d, changed |-> changed, threw |-> FALSE]
    ELSE
      LET name == Head(names)
          descriptor == property(inst, name)
          value == Get(d, inst, name)
      IN  IF descriptor.kind = "component" /\ value = Undef
          THEN [d |-> d, changed |-> changed, threw |-> TRUE]
          ELSE IF descriptor.kind = "component" /\ IsRef(value)
          THEN LET validComponent == isValid(d, Target(value))
                   validProp == ErrorsIsValid(d, inst, name)
                   r == validate(d, Target(value), behs)
               IN  IF r.threw
                   THEN [d |-> r.d, changed |-> changed, threw |-> TRUE]
                   ELSE ValidateProps(r.d, inst, Tail(names),
                          IF validComponent # r.result
                             \/ validProp # ErrorsIsValid(r.d, inst, name)
                          THEN Append(changed, name) ELSE changed,
                          behs)
          ELSE IF descriptor.writable
          THEN LET valid == ErrorsIsValid(d, inst, name)
                   r == Set(d, inst, name, value, behs[name])
               IN  IF r.threw
                   THEN [d |-> r.d, changed |-> changed, threw |-> TRUE]
                   ELSE ValidateProps(r.d, inst, Tail(names),
                          IF valid # ErrorsIsValid(r.d, inst, name)
                          THEN Append(changed, name) ELSE changed,
                          behs)
          ELSE ValidateProps(d, inst, Tail(names), changed, behs)

\* variant: the flag is released at the end of the try block, not in finally
validate_NoFinally(d, inst, behs) ==
    LET d1 == Note([d EXCEPT !.validating[inst] = TRUE], "flagSet", inst, "")
        r == ValidateProps(d1, inst, properties(inst), <<>>, behs)
    IN  IF r.threw THEN [d |-> r.d, threw |-> TRUE, result |-> FALSE]
        ELSE LET d2 == Note([r.d EXCEPT !.validating[inst] = FALSE],
                            "flagReleased", inst, "")
                 d3 == FireAll(d2, inst, r.changed)
             IN  [d |-> d3, threw |-> isValidOutcome(d3, inst) = "throws",
                  result |-> isValid(d3, inst)]

\* validate()
validate(d, inst, behs) ==
    LET d1 == Note([d EXCEPT !.validating[inst] = TRUE], "flagSet", inst, "")
        r == ValidateProps(d1, inst, properties(inst), <<>>, behs)
        d2 == Note([r.d EXCEPT !.validating[inst] = FALSE], "flagReleased", inst, "")
        d3 == FireAll(d2, inst, r.changed)
    IN  [d |-> d3,
         threw |-> r.threw \/ isValidOutcome(d3, inst) = "throws",
         result |-> IF r.threw THEN FALSE ELSE isValid(d3, inst)]

RECURSIVE clearErrors(_, _)
RECURSIVE ClearComponents(_, _, _)

\* clearErrors() without key, the _.every over the properties: it goes on
\* while the callback returns a truthy value; the callback returns true for
\* a property that is no component and the (undefined) result of the
\* component's clearErrors() otherwise
ClearComponents(d, inst, names) ==
    IF names = <<>> THEN [d |-> d, threw |-> FALSE]
    ELSE LET name == Head(names)
             value == d.slots[inst][name]
         IN  IF property(inst, name).kind # "component"
             THEN ClearComponents(d, inst, Tail(names))
             ELSE IF value = Undef THEN [d |-> d, threw |-> TRUE]
             ELSE IF IsRef(value) THEN clearErrors(d, Target(value))
             ELSE ClearComponents(d, inst, Tail(names))

\* clearErrors() without key
clearErrors(d, inst) ==
    ClearComponents([d EXCEPT !.errs[inst] = {}], inst, properties(inst))

(* ---------------------- declared dependent lists ----------------------- *)
\* the properties of a type declared with default storage, no default
\* value and any dependent lists
DepNames == {"p", "q"}

\* the dependent lists a declaration can give
DepLists == { <<>>, <<"p">>, <<"q">>, <<"p", "q">>, <<"q", "p">> }

RECURSIVE FireNested(_, _, _, _)
RECURSIVE FireNestedDependents(_, _, _, _)

\* DataContext.firePropertyChange(name, ...) on an instance that is not
\* validating, as the depth-th nested call of it: emits, then goes through
\* the dependent list; r collects the events and whether the stack ran out
\* (RangeError, which ends the whole assignment)
FireNested(r, vals, name, depth) ==
    IF r.overflow THEN r
    ELSE IF depth > MaxStack THEN [r EXCEPT !.overflow = TRUE]
    ELSE FireNestedDependents([r EXCEPT !.events = Append(@, name)],
                              vals, declared[name], depth)

\* the _.each over property.dependent: the free firePropertyChange(this, p,
\* this[p]) calls the method when this[p] is not undefined
FireNestedDependents(r, vals, deps, depth) ==
    IF deps = <<>> \/ r.overflow THEN r
    ELSE LET p == Head(deps)
             r1 == IF vals[p] # Undef
                   THEN FireNested(r, vals, p, depth + 1)
                   ELSE r
         IN  FireNestedDependents(r1, vals, Tail(deps), depth)

\* instance[name] = v through the generated default setter
AssignNested(vals, name, v) ==
    IF vals[name] # v
    THEN FireNested([events |-> <<>>, overflow |-> FALSE],
                    [vals EXCEPT ![name] = v], name, 1)
    ELSE [events |-> <<>>, overflow |-> FALSE]

(* --------------------------- property registry --------------------------- *)
\* a type and its subclass
Types == {"Base", "Sub"}

\* no descriptor
NoDesc == [via |-> "none", command |-> FALSE, getter |-> "none",
           set |-> FALSE, component |-> FALSE, writable |-> FALSE]

\* the definitions given to a declaration, by the attributes they carry
Definitions ==
    [execute : BOOLEAN, get : BOOLEAN, set : BOOLEAN, component : BOOLEAN]

\* DataContext.property(name) without definition: the type's own descriptor
\* or the nearest ancestor's
Resolve(reg, type) ==
    IF reg[type] # NoDesc THEN reg[type]
    ELSE IF type = "Sub" THEN reg["Base"]
    ELSE NoDesc

\* DataContext._defProperty(name, definition): registers the descriptor
\* with the type; writable unless it has a getter and no setter
DefProperty(reg, type, definition, via) ==
    [reg |-> [reg EXCEPT ![type] =
                 [via |-> via,
                  command |-> definition.command,
                  getter |-> definition.getter,
                  set |-> definition.set,
                  component |-> definition.component,
                  writable |-> (definition.getter = "none" \/ definition.set)]],
     threw |-> FALSE]

\* variant: a command may be declared over any property
RegCommand_NoCheck(reg, type) ==
    DefProperty(reg, type,
                [command |-> TRUE, getter |-> "command", set |-> FALSE,
                 component |-> FALSE],
                "command")

\* DataContext.command(name, config)
RegCommand(reg, type) ==
    IF Resolve(reg, type) # NoDesc /\ ~Resolve(reg, type).command
    THEN [reg |-> reg, threw |-> TRUE]
    ELSE DefProperty(reg, type,
                     [command |-> TRUE, getter |-> "command", set |-> FALSE,
                      component |-> FALSE],
                     "command")

\* DataContext.component(name, def)
RegComponent(reg, type, definition) ==
    DefProperty(reg, type, definition, "component")

\* DataContext.property(name, definition): the definition is laid over the
\* resolved descriptor and registered by its shape
RegProperty(reg, type, def) ==
    LET existing == Resolve(reg, type)
        merged == [command |-> existing.command,
                   getter |-> IF def.get THEN "user" ELSE existing.getter,
                   set |-> (def.set \/ existing.set),
                   component |-> (def.component \/ existing.component)]
    IN  IF def.execute THEN RegCommand(reg, type)
        ELSE IF merged.component THEN RegComponent(reg, type, merged)
        ELSE DefProperty(reg, type, merged, "plain")

(* ------------------------------ controller ------------------------------ *)
\* the controller as a mixin (controller.js) and as a wrapping component
Variants == {"mixin", "component"}

\* the controller before React constructs it; subs holds each listener
\* subscribed to a view model by DataContext.attach
NewController(variant) ==
    [variant |-> variant, phase |-> "new", viewModel |-> Null,
     created |-> 0, modelListener |-> Null, attaches |-> 0, subs |-> {},
     canSetState |-> FALSE, warned |-> FALSE]

\* variant: attaches without looking at modelListener
attachViewModel_NoGuard(c) ==
    [c EXCEPT !.attaches = @ + 1,
              !.modelListener = c.attaches + 1,
              !.subs = @ \cup {<< c.viewModel, c.attaches + 1 >>}]

\* attachViewModel(props) / _attachViewModel(props)
attachViewModel(c) ==
    IF c.modelListener = Null
    THEN [c EXCEPT !.attaches = @ + 1,
                   !.modelListener = c.attaches + 1,
                   !.subs = @ \cup {<< c.viewModel, c.attaches + 1 >>}]
    ELSE [c EXCEPT !.warned = TRUE]

\* detachViewModel() / _detachViewModel()
detachViewModel(c) ==
    IF c.modelListener # Null
    THEN [c EXCEPT !.subs = @ \ {<< c.viewModel, c.modelListener >>},
                   !.modelListener = Null]
    ELSE c

\* _createViewModel(props, context)
createViewModel(c) ==
    [c EXCEPT !.created = @ + 1, !.viewModel = c.created + 1]

\* the component's constructor and componentDidMount, the mixin's
\* componentWillMount (its host supplies this.viewModel)
mount(c) ==
    IF c.variant = "component"
    THEN [attachViewModel(createViewModel(c)) EXCEPT
             !.canSetState = TRUE, !.phase = "mounted"]
    ELSE [attachViewModel([createViewModel(c) EXCEPT !.canSetState = TRUE])
             EXCEPT !.phase = "mounted"]

\* componentWillReceiveProps(props)
componentWillReceiveProps(c, viewModelChanged) ==
    IF c.variant = "component"
    THEN IF viewModelChanged
         THEN attachViewModel(createViewModel(detachViewModel(c)))
         ELSE c
    ELSE attachViewModel(detachViewModel(c))

\* componentWillUnmount()
componentWillUnmount(c) ==
    [detachViewModel(c) EXCEPT !.canSetState = FALSE, !.phase = "unmounted"]

\* the command property's get(): the Command is created on the first
\* access and kept in the instance
GetCommand(d) ==
    IF d.cmdIvar = Null
    THEN LET cmd == Cardinality(d.returned) + 1
         IN  [d EXCEPT !.cmdIvar = cmd, !.returned = @ \cup {cmd}]
    ELSE [d EXCEPT !.returned = @ \cup {d.cmdIvar}]

RECURSIVE ForwardEvents(_, _)

\* variant: the listener is called for every event of the Command
ForwardEvents_All(d, events) ==
    IF events = <<>> THEN d
    ELSE ForwardEvents(IF Head(events) # "action"
                       THEN Fire(d, Parent, "cmd") ELSE d,
                       Tail(events))

\* the listener the getter registers with cmd.on('execute', ...): each
\* 'execute' event of the Command (started, finished) becomes a
\* firePropertyChange(name, cmd, cmd) of the owner
ForwardEvents(d, events) ==
    IF events = <<>> THEN d
    ELSE ForwardEvents(IF Head(events) \in {"started", "finished"}
                       THEN Fire(d, Parent, "cmd") ELSE d,
                       Tail(events))

\* what the Command emitted (and did) in this task
NewEvents(w) == SubSeq(w.log, Len(log) + 1, Len(w.log))

\* the key is missing from the object given to reset() / putAll()
Absent == -2

\* the objects given to reset() / putAll(): for each key its value, a
\* falsy value among them, or Absent (no argument counts as no key)
NewDatas ==
    {f \in [{"a", "b", "child"} -> {Absent, 1, 2, Falsy}] :
        /\ f["a"] \in {Absent, 2, Falsy}
        /\ f["b"] \in {Absent, 1, Falsy}
        /\ f["child"] \in {Absent, 1}}

\* newData.hasOwnProperty(name)
HasOwnProperty(newData, name) ==
    name \in DOMAIN newData /\ newData[name] # Absent

\* newData[name]
Lookup(newData, name) ==
    IF HasOwnProperty(newData, name) THEN newData[name] ELSE Undef

\* JavaScript's a || b
OrElse(a, b) == IF a \in {Undef, Falsy} THEN b ELSE a

RECURSIVE ResetProps(_, _, _, _, _)

\* reset(newData), the loop over the properties; a throwing setter ends it
ResetProps(d, inst, names, newData, beh) ==
    IF names = <<>> THEN [d |-> d, threw |-> FALSE]
    ELSE LET name == Head(names)
             descriptor == property(inst, name)
         IN  IF descriptor.writable
             THEN LET r == Set(d, inst, name,
                               OrElse(Lookup(newData, name), descriptor.default),
                               beh)
                  IN  IF r.threw THEN r
                      ELSE ResetProps(r.d, inst, Tail(names), newData, beh)
             ELSE ResetProps(d, inst, Tail(names), newData, beh)

\* reset(newData)
reset(d, inst, newData, beh) ==
    ResetProps(d, inst, properties(inst), newData, beh)

RECURSIVE PutAllProps(_, _, _, _, _)

\* variant: a key counts as present only when its value is truthy
PutAllProps_TruthyOnly(d, inst, names, newData, beh) ==
    IF names = <<>> THEN [d |-> d, threw |-> FALSE]
    ELSE LET name == Head(names)
         IN  IF property(inst, name).writable
                /\ OrElse(Lookup(newData, name), Undef) # Undef
             THEN LET r == Set(d, inst, name, newData[name], beh)
                  IN  IF r.threw THEN r
                      ELSE PutAllProps(r.d, inst, Tail(names), newData, beh)
             ELSE PutAllProps(d, inst, Tail(names), newData, beh)

\* putAll(newData), the loop over the properties
PutAllProps(d, inst, names, newData, beh) ==
    IF names = <<>> THEN [d |-> d, threw |-> FALSE]
    ELSE LET name == Head(names)
         IN  IF property(inst, name).writable /\ HasOwnProperty(newData, name)
             THEN LET r == Set(d, inst, name, newData[name], beh)
                  IN  IF r.threw THEN r
                      ELSE PutAllProps(r.d, inst, Tail(names), newData, beh)
             ELSE PutAllProps(d, inst, Tail(names), newData, beh)

\* putAll(newData)
putAll(d, inst, newData, beh) ==
    PutAllProps(d, inst, properties(inst), newData, beh)

\* instance[name] = v; instance[name] = v
AssignTwice(d, inst, name, v, beh) ==
    LET first == Set(d, inst, name, v, beh)
    IN  IF first.threw THEN [d |-> first.d, threw |-> TRUE, first |-> first.d]
        ELSE LET second == Set(first.d, inst, name, v, beh)
             IN  [d |-> second.d, threw |-> second.threw, first |-> first.d]

(* ------------------------- DataContext actions ------------------------- *)
\* the names with a user supplied setter
CustomNames == {"b", "x"}

\* the plain properties of an instance
PlainNames(inst) ==
    CASE inst = Parent -> {"a", "b"}
      [] inst = Child -> {"x", "y"}
      [] inst = Child2 -> {}

\* a client assigns instance[name] = v
WriteProperty ==
    \E inst \in Insts :
    \E name \in PlainNames(inst), v \in Values :
    \E beh \in (IF name \in CustomNames THEN SetterBehaviours ELSE {"valid"}) :
       LET r == Set(D, inst, name, v, beh)
       IN  /\ ApplyDC(r.d)
           /\ dcOp' = [op |-> "write", inst |-> inst, name |-> name,
                       threw |-> r.threw,
                       changed |-> (slots[inst][name] # v)]
           /\ UNCHANGED cmdVars

\* a client calls instance.validate()
ValidateCall ==
    \E inst \in Insts, behs \in [CustomNames -> SetterBehaviours] :
       LET r == validate(D, inst, behs)
       IN  /\ inst # Parent => behs["b"] = "valid"
           /\ inst = Child2 => behs["x"] = "valid"
           /\ ApplyDC(r.d)
           /\ dcOp' = [op |-> "validate", inst |-> inst, name |-> "",
                       threw |-> r.threw, changed |-> FALSE]
           /\ UNCHANGED cmdVars

\* a client calls instance.clearErrors()
ClearErrorsCall ==
    \E inst \in Insts :
       LET r == clearErrors(D, inst)
       IN  /\ ApplyDC(r.d)
           /\ dcOp' = [op |-> "clearErrors", inst |-> inst, name |-> "",
                       threw |-> r.threw, changed |-> FALSE]
           /\ UNCHANGED cmdVars

\* the parent's command emits an 'execute' event (started or finished)
CommandEvent ==
    /\ ApplyDC(Fire(D, Parent, "cmd"))
    /\ dcOp' = [op |-> "commandEvent", inst |-> Parent, name |-> "cmd",
                threw |-> FALSE, changed |-> FALSE]
    /\ UNCHANGED cmdVars

\* Type.property(name, definition) or Type.properties({name: definition})
DeclareProperty ==
    \E type \in Types, def \in Definitions :
       LET r == RegProperty(registry, type, def)
       IN  /\ registry' = r.reg
           /\ lastDecl' = [type |-> type, api |-> "property", def |-> def,
                           threw |-> r.threw]
           /\ UNCHANGED << cmdVars, validating, slots, errs, trace, dcOp,
                           cmdIvar, returned, ctlVars, depVars >>

\* Type.command(name, config)
DeclareCommand ==
    \E type \in Types :
       LET r == RegCommand(registry, type)
       IN  /\ registry' = r.reg
           /\ lastDecl' = [type |-> type, api |-> "command",
                           def |-> [execute |-> TRUE, get |-> FALSE,
                                    set |-> FALSE, component |-> FALSE],
                           threw |-> r.threw]
           /\ UNCHANGED << cmdVars, validating, slots, errs, trace, dcOp,
                           cmdIvar, returned, ctlVars, depVars >>

\* everything but the controller stays as it is
OnlyController ==
    UNCHANGED << cmdVars, validating, slots, errs, trace, dcOp, cmdIvar,
                 returned, regVars, depVars >>

\* the controller's step: the warning flag says what this step did
ControllerStep(op, c) ==
    /\ ctl' = [c EXCEPT !.warned = FALSE]
    /\ ctlOp' = [op |-> op, warned |-> c.warned,
                 attached |-> (ctl.modelListener # Null), updates |-> 0]
    /\ OnlyController

\* React constructs and mounts the controller
Mount ==
    /\ ctl.phase = "new"
    /\ ControllerStep("mount", mount(ctl))

\* React passes new props, with the same or another view model
ReceiveProps ==
    /\ ctl.phase = "mounted"
    /\ ctl.attaches < MaxAttaches
    /\ \E viewModelChanged \in BOOLEAN :
          /\ viewModelChanged => ctl.created < MaxViewModels
          /\ ControllerStep("receiveProps",
                            componentWillReceiveProps(ctl, viewModelChanged))

\* React unmounts the controller
Unmount ==
    /\ ctl.phase = "mounted"
    /\ ControllerStep("unmount", componentWillUnmount(ctl))

\* the host calls attachViewModel() itself
AttachCall ==
    /\ ctl.phase = "mounted"
    /\ ctl.attaches < MaxAttaches
    /\ ControllerStep("attach", attachViewModel(ctl))

\* the host calls detachViewModel() itself
DetachCall ==
    /\ ctl.phase = "mounted"
    /\ ControllerStep("detach", detachViewModel(ctl))

\* a view model the controller has had emits a property change: each of
\* the controller's listeners subscribed to it calls update()
ModelChanges ==
    /\ ctl.phase # "new"
    /\ \E vm \in 1..ctl.created :
          ctlOp' = [op |-> "change", warned |-> FALSE,
                    attached |-> (ctl.modelListener # Null),
                    updates |-> Cardinality({l \in ctl.subs : l[1] = vm})]
    /\ UNCHANGED ctl
    /\ OnlyController

\* a client reads parent.cmd
AccessCommand ==
    /\ ApplyDC(GetCommand(D))
    /\ dcOp' = [op |-> "access", inst |-> Parent, name |-> "cmd",
                threw |-> FALSE, changed |-> FALSE]
    /\ UNCHANGED cmdVars

\* a client calls parent.cmd.execute()
OwnedExecuteCall ==
    /\ Len(calls) < MaxOwnedCalls
    /\ ~fault
    /\ \E beh \in Behaviours :
          LET r == execute(W, beh)
          IN  /\ Apply(r.w)
              /\ calls' = Append(calls, CallRecord("execute", r))
              /\ ApplyDC(ForwardEvents(GetCommand(D), NewEvents(r.w)))
              /\ dcOp' = [op |-> "execute", inst |-> Parent, name |-> "cmd",
                          threw |-> (r.out = Threw), changed |-> FALSE]
    /\ UNCHANGED << layers, hasCondition, condVal >>

\* a client calls parent.validate() and b's setter calls this.cmd.execute(),
\* which passes the guard
ExecuteInValidate ==
    /\ Len(calls) < MaxOwnedCalls
    /\ ~fault
    /\ canExecute(W)
    /\ \E beh \in Behaviours :
          LET r == execute(W, beh)
              v == validate(GetCommand(D), Parent,
                            [n \in CustomNames |->
                               IF n = "b" THEN "exec" ELSE "valid"])
          IN  /\ Apply(r.w)
              /\ calls' = Append(calls, CallRecord("execute", r))
              /\ ApplyDC(v.d)
              /\ dcOp' = [op |-> "validate", inst |-> Parent, name |-> "",
                          threw |-> v.threw, changed |-> FALSE]
    /\ UNCHANGED << layers, hasCondition, condVal >>

\* the next scheduling turn after parent.cmd.execute()
OwnedFinishTimeout ==
    /\ finishTimers > 0
    /\ ~fault
    /\ LET w == finishExecute([W EXCEPT !.finishTimers = @ - 1])
       IN  /\ Apply(w)
           /\ ApplyDC(ForwardEvents(D, NewEvents(w)))
    /\ dcOp' = [op |-> "timer", inst |-> Parent, name |-> "cmd",
                threw |-> FALSE, changed |-> FALSE]
    /\ UNCHANGED << layers, hasCondition, condVal, calls >>

\* a pending result handle returned by the command's action completes
OwnedResultSettles ==
    /\ ~fault
    /\ \E h \in 1..Len(heap), st \in {"resolved", "rejected"} :
          /\ heap[h].orig
          /\ heap[h].state = "pending"
          /\ LET w == Settle(W, h, st)
             IN  /\ Apply(w)
                 /\ ApplyDC(ForwardEvents(D, NewEvents(w)))
    /\ dcOp' = [op |-> "settle", inst |-> Parent, name |-> "cmd",
                threw |-> FALSE, changed |-> FALSE]
    /\ UNCHANGED << layers, hasCondition, condVal, calls >>

\* the keys under which the model's clients record errors on an instance
ErrorKeys(inst) ==
    CASE inst = Parent -> {"b", "child"}
      [] inst = Child -> {"x"}
      [] inst = Child2 -> {"w"}

\* a client's instance.check(key, value) chain fails: an error is recorded
CheckFails ==
    \E inst \in Insts :
    \E key \in ErrorKeys(inst) :
       /\ ApplyDC([D EXCEPT !.errs[inst] = @ \cup {key}])
       /\ dcOp' = [op |-> "check", inst |-> inst, name |-> key,
                   threw |-> FALSE, changed |-> FALSE]
       /\ UNCHANGED cmdVars

\* a client calls instance.isValid() (name "") or instance.isValid(key)
IsValidCall ==
    \E inst \in Insts :
    \E key \in ErrorKeys(inst) \cup {""} :
       LET outcome == IF key = "" THEN isValidOutcome(D, inst)
                      ELSE IF isValidKey(D, inst, key) THEN "valid"
                      ELSE "invalid"
       IN  /\ ApplyDC(D)
           /\ dcOp' = [op |-> "isValid", inst |-> inst, name |-> key,
                       threw |-> (outcome = "throws"), changed |-> FALSE,
                       result |-> outcome]
           /\ UNCHANGED cmdVars

\* a client calls parent.reset(newData)
ResetCall ==
    \E newData \in NewDatas, beh \in {"valid", "invalid", "throw"} :
       LET r == reset(D, Parent, newData, beh)
       IN  /\ ApplyDC(r.d)
           /\ dcOp' = [op |-> "reset", inst |-> Parent, name |-> "",
                       threw |-> r.threw, changed |-> FALSE,
                       data |-> newData, beh |-> beh]
           /\ UNCHANGED cmdVars

\* a client calls parent.putAll(newData)
PutAllCall ==
    \E newData \in NewDatas, beh \in {"valid", "invalid", "throw"} :
       LET r == putAll(D, Parent, newData, beh)
       IN  /\ ApplyDC(r.d)
           /\ dcOp' = [op |-> "putAll", inst |-> Parent, name |-> "",
                       threw |-> r.threw, changed |-> FALSE,
                       data |-> newData, beh |-> beh]
           /\ UNCHANGED cmdVars

\* the objects given to reset() / putAll() that leave a and b out
ComponentDatas == {f \in NewDatas : f["a"] = Absent /\ f["b"] = Absent}

\* a client calls parent.reset() or parent.reset(newData), the data naming
\* at most the component
ResetComponents ==
    \E newData \in ComponentDatas :
       LET r == reset(D, Parent, newData, "valid")
       IN  /\ ApplyDC(r.d)
           /\ dcOp' = [op |-> "reset", inst |-> Parent, name |-> "",
                       threw |-> r.threw, changed |-> FALSE,
                       data |-> newData, beh |-> "valid"]
           /\ UNCHANGED cmdVars

\* a client calls parent.putAll(newData), the data naming at most the
\* component
PutAllComponents ==
    \E newData \in ComponentDatas :
       LET r == putAll(D, Parent, newData, "valid")
       IN  /\ ApplyDC(r.d)
           /\ dcOp' = [op |-> "putAll", inst |-> Parent, name |-> "",
                       threw |-> r.threw, changed |-> FALSE,
                       data |-> newData, beh |-> "valid"]
           /\ UNCHANGED cmdVars

\* a client assigns instance[name] = v on the type with declared dependents
AssignDependent ==
    /\ \E name \in DepNames, v \in Values :
          LET r == AssignNested(held, name, v)
          IN  /\ held' = [held EXCEPT ![name] = v]
              /\ fireOp' = [name |-> name, events |-> r.events,
                            overflow |-> r.overflow]
    /\ UNCHANGED << cmdVars, validating, slots, errs, trace, dcOp, cmdIvar,
                    returned, regVars, ctlVars, declared >>

\* a client assigns parent[name] = v twice in a row
AssignTwiceCall ==
    \E name \in PlainNames(Parent), v \in Values :
    \E beh \in (IF name \in CustomNames THEN AssignBehaviours ELSE {"valid"}) :
       LET r == AssignTwice(D, Parent, name, v, beh)
       IN  /\ ApplyDC(r.d)
           /\ dcOp' = [op |-> "assignTwice", inst |-> Parent, name |-> name,
                       threw |-> r.threw,
                       changed |-> (slots[Parent][name] # v),
                       first |-> Len(SelectSeq(r.first.trace,
                                   LAMBDA e : e = [kind |-> "emit",
                                                   inst |-> Parent,
                                                   name |-> name])),
                       beh |-> beh]
           /\ UNCHANGED cmdVars

\* no controller step yet
InitCtlOp ==
    ctlOp = [op |-> "none", warned |-> FALSE, attached |-> FALSE,
             updates |-> 0]

\* no declaration yet
InitRegistry ==
    /\ registry = [t \in Types |-> NoDesc]
    /\ lastDecl = [type |-> "Base", api |-> "none",
                   def |-> [execute |-> FALSE, get |-> FALSE, set |-> FALSE,
                            component |-> FALSE],
                   threw |-> FALSE]

\* the DataContext instances right after construction
InitInstances ==
    /\ validating = [i \in Insts |-> FALSE]
    /\ slots = [i \in Insts |->
                  CASE i = Parent ->
                         [n \in {"a", "b", "child", "child2"} |->
                            CASE n = "child" -> ChildRef
                              [] n = "child2" -> Child2Ref
                              [] OTHER -> Undef]
                    [] i = Child -> [n \in {"x", "y"} |-> Undef]
                    [] i = Child2 -> [n \in {"w"} |-> Undef]]
    /\ errs = [i \in Insts |-> {}]
    /\ trace = <<>>
    /\ cmdIvar = Null
    /\ returned = {}
    /\ dcOp = [op |-> "new", inst |-> Parent, name |-> "", threw |-> FALSE,
               changed |-> FALSE]

\* a new instance of the type with declared dependents
InitHeld ==
    /\ held = [n \in DepNames |-> Undef]
    /\ fireOp = [name |-> "", events |-> <<>>, overflow |-> FALSE]

\* the DataContext instances right after construction, no declaration of
\* the registry's name, a controller not yet mounted
InitDC ==
    /\ InitInstances
    /\ InitRegistry
    /\ ctl = NewController("mixin")
    /\ InitCtlOp
    /\ declared = [n \in DepNames |-> <<>>]
    /\ InitHeld

\* the Command right after construction
InitCmd ==
    /\ layers \in LayerConfigs
    /\ hasCondition \in BOOLEAN
    /\ condVal \in (IF hasCondition THEN BOOLEAN ELSE {TRUE})
    /\ isRunning = FALSE
    /\ promise = Null
    /\ debouncedResult = Null
    /\ executed = FALSE
    /\ heap = <<>>
    /\ log = <<>>
    /\ finishTimers = 0
    /\ debTimer = FALSE
    /\ invocations = 0
    /\ successes = 0
    /\ outcomes = <<>>
    /\ fault = FALSE
    /\ finishedSaw = {}
    /\ calls = <<>>

Init == InitCmd /\ InitDC

\* a DataContext whose command has no modifiers and no condition
InitSpecDC ==
    /\ InitCmd
    /\ layers = <<>>
    /\ ~hasCondition
    /\ InitDC

NextDC ==
    \/ WriteProperty
    \/ ValidateCall
    \/ ClearErrorsCall
    \/ CommandEvent

SpecDC == InitSpecDC /\ [][NextDC]_vars

\* declarations of one name on a type and its subclass
NextRegistry == DeclareProperty \/ DeclareCommand

SpecRegistry == InitSpecDC /\ [][NextRegistry]_vars

\* the controller's life: mounted, given props, unmounted, with attach and
\* detach calls of its host in between
NextController ==
    \/ Mount
    \/ ReceiveProps
    \/ Unmount
    \/ AttachCall
    \/ DetachCall
    \/ ModelChanges

InitController ==
    /\ InitCmd
    /\ layers = <<>>
    /\ ~hasCondition
    /\ InitInstances
    /\ InitRegistry
    /\ declared = [n \in DepNames |-> <<>>]
    /\ InitHeld
    /\ \E variant \in Variants : ctl = NewController(variant)
    /\ InitCtlOp

SpecController == InitController /\ [][NextController]_vars

\* the parent's command, executed through the property
NextOwned ==
    \/ AccessCommand
    \/ OwnedExecuteCall
    \/ ExecuteInValidate
    \/ OwnedFinishTimeout
    \/ OwnedResultSettles

SpecOwned == InitSpecDC /\ [][NextOwned]_vars

\* errors and validity over the parent and its components
NextTree == CheckFails \/ IsValidCall \/ ClearErrorsCall \/ ValidateCall

SpecTree == InitSpecDC /\ [][NextTree]_vars

\* the parent's properties under reset(), putAll() and repeated assignment
NextData == ResetCall \/ PutAllCall \/ AssignTwiceCall

SpecData == InitSpecDC /\ [][NextData]_vars

\* a type declared with any dependent lists, cyclic ones among them
InitDependents ==
    /\ InitCmd
    /\ layers = <<>>
    /\ ~hasCondition
    /\ InitInstances
    /\ InitRegistry
    /\ ctl = NewController("mixin")
    /\ InitCtlOp
    /\ declared \in [DepNames -> DepLists]
    /\ InitHeld

NextDependents == AssignDependent

SpecDependents == InitDependents /\ [][NextDependents]_vars

\* the parent's bulk operations together with validation over the tree
NextComponents ==
    \/ ResetComponents
    \/ PutAllComponents
    \/ IsValidCall
    \/ ClearErrorsCall
    \/ ValidateCall

SpecComponents == InitSpecDC /\ [][NextComponents]_vars

\* executions of a command and their cancellation
NextAbort ==
    \/ ExecuteCall
    \/ ExecuteCancellable
    \/ AbortCall
    \/ FinishTimeout
    \/ ResultSettles

SpecAbort == InitSpecDC /\ [][NextAbort]_vars

\* a command configured with debounce, without a condition
InitAction ==
    /\ InitCmd
    /\ LayerIndex("debounce") # 0
    /\ ~hasCondition
    /\ InitDC

\* the debounced action invoked directly, its timer and its results
NextAction ==
    \/ ActionCall
    \/ DebounceTimeout
    \/ ResultSettles

SpecAction == InitAction /\ [][NextAction]_vars

Next ==
    \/ ExecuteCall
    \/ TryExecuteCall
    \/ FinishTimeout
    \/ ResultSettles
    \/ DebounceTimeout
    \/ ResetOnce
    \/ ConditionChanges

Spec == Init /\ [][Next]_vars

\* all operations of a Command, cancellation included
NextCommand ==
    \/ Next
    \/ ExecuteCancellable
    \/ AbortCall

SpecCommand == Init /\ [][NextCommand]_vars

\* the Command's behaviours with fewer client calls
LiveNext ==
    \/ (Len(calls) < MaxLiveCalls /\ ExecuteCall)
    \/ (Len(calls) < MaxLiveCalls /\ TryExecuteCall)
    \/ FinishTimeout
    \/ ResultSettles
    \/ DebounceTimeout
    \/ ResetOnce
    \/ ConditionChanges

\* timers fire and pending results complete
FairSpec ==
    /\ Init
    /\ [][LiveNext]_vars
    /\ WF_vars(FinishTimeout)
    /\ WF_vars(ResultSettles)
    /\ WF_vars(DebounceTimeout)

TypeOK ==
    /\ isRunning \in BOOLEAN
    /\ promise \in 0..Len(heap)
    /\ debouncedResult \in 0..Len(heap)
    /\ ~fault

(* ======================= properties of Command ========================= *)
Count(seq, e) == Cardinality({i \in 1..Len(seq) : seq[i] = e})
Last(seq) == seq[Len(seq)]

\* this step is a client call of the given operation
IsCall(op) == Len(calls') = Len(calls) + 1 /\ Last(calls').op = op

\* the calls that passed the guard, in order
PassedCalls == SelectSeq(calls, LAMBDA c : c.passed)

\* C1: canExecute() is false whenever isRunning is true, and between two
\* invocations of the action there is always a 'finished' notification, so
\* at most one invocation is in flight.
C1_OneInFlight ==
    /\ isRunning => ~canExecute(W)
    /\ Count(log, "started") - Count(log, "finished") \in {0, 1}
    /\ \A i, j \in 1..Len(log) :
          (i < j /\ log[i] = "action" /\ log[j] = "action")
             => \E k \in (i + 1)..(j - 1) : log[k] = "finished"

\* a call was refused because the command was running, although its
\* condition allowed it, and the running execution then finished
C1_Witness ==
    /\ \E i \in 1..Len(calls) :
          calls[i].running /\ calls[i].cond /\ calls[i].out = Threw
    /\ Count(log, "action") = 1
    /\ Count(log, "finished") = 1

\* nothing is pending: no timer, no unsettled result of the user's action
Quiescent ==
    /\ finishTimers = 0
    /\ ~debTimer
    /\ \A h \in 1..Len(heap) : heap[h].orig => heap[h].state # "pending"

C3_Original ==
    [][ ( /\ layers = <<>>
          /\ Len(calls) >= 1
          /\ Last(calls).op = "execute"
          /\ Last(calls).out # Threw
          /\ heap[Last(calls).out].state # "pending"
          /\ Condition(W)
          /\ IsCall("execute") )
        => Last(calls').out # Threw ]_vars

\* C3 amended: for a command without once/debounce, an execute() made after
\* the 'finished' notification of the previous one (condition permitting)
\* passes the guard and runs the action; isRunning is true exactly between
\* 'started' and 'finished', and once nothing is pending every execution
\* has finished.
C3_SequentialExecutes ==
    /\ [][ ( /\ layers = <<>>
             /\ Count(log, "started") >= 1
             /\ Count(log, "finished") = Count(log, "started")
             /\ Condition(W)
             /\ IsCall("execute") )
           => ( /\ Last(calls').out # Threw
                /\ isRunning'
                /\ Count(log', "action") = Count(log, "action") + 1 ) ]_vars
    /\ [](layers = <<>> =>
            (isRunning <=> Count(log, "started") = Count(log, "finished") + 1))
    /\ []((layers = <<>> /\ Quiescent) =>
            (~isRunning /\ Count(log, "finished") = Count(log, "action")))

\* two execute() calls ran one after the other and both finished
C3_Witness ==
    /\ layers = <<>>
    /\ Len(calls) >= 2
    /\ calls[1].op = "execute" /\ calls[1].passed
    /\ calls[2].op = "execute" /\ calls[2].passed
    /\ Count(log, "finished") = 2
    /\ ~isRunning

\* C4: execute() while canExecute() is false throws, does not invoke the
\* action, leaves isRunning and the in-flight result alone, emits nothing.
C4_RefusedExecute ==
    [][ (IsCall("execute") /\ ~canExecute(W))
        => ( /\ Last(calls').out = Threw
             /\ W' = W ) ]_vars

\* execute() was refused by the condition, then passed, and a third time
\* would be refused because the command is running
C4_Witness ==
    /\ Len(calls) = 2
    /\ calls[1].op = "execute" /\ calls[1].out = Threw /\ ~calls[1].running
    /\ calls[2].op = "execute" /\ calls[2].passed
    /\ isRunning

\* C5: tryExecute() while canExecute() is false returns an already failed
\* result, does not throw, does not invoke the action and leaves isRunning
\* and the in-flight result alone; otherwise it does what execute() does.
C5_TryExecute ==
    [][ IsCall("tryExecute")
        => IF canExecute(W)
           THEN \E beh \in Behaviours :
                   /\ W' = execute(W, beh).w
                   /\ Last(calls').out = execute(W, beh).out
           ELSE /\ Last(calls').out \in 1..Len(heap')
                /\ heap'[Last(calls').out].state = "rejected"
                /\ Last(calls').out # promise'
                /\ isRunning' = isRunning
                /\ promise' = promise
                /\ log' = log
                /\ invocations' = invocations
                /\ finishTimers' = finishTimers ]_vars

\* tryExecute() was refused once and passed once
C5_Witness ==
    /\ \E i \in 1..Len(calls) : calls[i].op = "tryExecute" /\ ~calls[i].passed
    /\ \E i \in 1..Len(calls) : calls[i].op = "tryExecute" /\ calls[i].passed

\* C6: execute() never throws once the guard passed, whatever the action
\* does; a failure of the action shows as the rejection of the returned
\* result, and once nothing is pending every execution that started has
\* also finished.
C6_FailureInResult ==
    /\ [](\A i \in 1..Len(calls) : calls[i].passed => calls[i].out # Threw)
    /\ [](\A k \in 1..Len(outcomes) :
             /\ k <= Len(PassedCalls)
             /\ k <= Count(log, "started")
             /\ (outcomes[k] = "rejected"
                   => heap[PassedCalls[k].out].state = "rejected"))
    /\ [](Quiescent =>
            (~isRunning /\ Count(log, "finished") = Count(log, "started")
                        /\ Len(outcomes) = Count(log, "started")))

\* an action threw, another one's result was rejected, both have finished
C6_Witness ==
    /\ Len(outcomes) >= 2
    /\ outcomes[1] = "rejected" /\ outcomes[2] = "rejected"
    /\ Len(PassedCalls) >= 2
    /\ \E i, j \in 1..2 : PassedCalls[i].out # PassedCalls[j].out
    /\ Count(log, "finished") = 2

\* C7: with once, after a successful completion canExecute() stays false
\* until resetOnce(), and the action succeeds at most once between resets.
C7_Once ==
    (LayerIndex("once") # 0)
       => /\ successes <= 1
          /\ (successes = 1 => executed /\ ~canExecute(W))

\* once: a second success after resetOnce(); the idle command, whose own
\* condition holds, cannot be executed
C7_Witness ==
    /\ LayerIndex("once") # 0
    /\ successes = 1
    /\ Count(outcomes, "resolved") = 2
    /\ Quiescent
    /\ ~isRunning
    /\ (hasCondition => condVal)
    /\ ~canExecute(W)

\* C8 as stated: with debounce, every execute() made while the debounce
\* timeout is pending gets the same result as the call that started it, and
\* the burst makes one invocation of the underlying action.
C8_Original ==
    (LayerIndex("debounce") # 0)
       => \A i \in 2..Len(calls) :
             ( /\ calls[i].op = "execute"
               /\ calls[i].window
               /\ calls[i - 1].op = "execute"
               /\ calls[i - 1].passed
               /\ (hasCondition => condVal) )
             => calls[i].out = calls[i - 1].out

(* ===================== properties of DataContext ======================= *)
\* position k of the trace lies inside a validation pass of the instance
InsidePass(inst, k) ==
    \E i \in 1..(k - 1) :
       /\ trace[i].kind = "flagSet" /\ trace[i].inst = inst
       /\ \A j \in (i + 1)..(k - 1) :
             ~(trace[j].kind = "flagReleased" /\ trace[j].inst = inst)

\* C9: between the moment validate() sets an instance's validating flag and
\* the moment it releases it, no subscriber of that instance is notified,
\* whatever the setters do and whatever command events arrive.
C9_SilentWhileValidating ==
    \A k \in 1..Len(trace) :
       trace[k].kind = "emit" => ~InsidePass(trace[k].inst, k)

\* during a pass on the parent a setter's change and a command event were
\* both swallowed
C9_Witness ==
    \E j, k \in 1..Len(trace) :
       /\ trace[j] = [kind |-> "suppressed", inst |-> Parent, name |-> "a"]
       /\ trace[k] = [kind |-> "suppressed", inst |-> Parent, name |-> "cmd"]
       /\ InsidePass(Parent, j)
       /\ InsidePass(Parent, k)

\* C10: outside validate() the validating flag is false, also when the pass
\* was left by an exception of a setter or of a child's validate(); every
\* pass that set the flag released it, and a property write that changes
\* the value notifies the subscribers.
C10_FlagReleased ==
    /\ \A inst \in Insts : ~validating[inst]
    /\ \A inst \in Insts : ~InsidePass(inst, Len(trace) + 1)
    /\ (dcOp.op = "write" /\ ~dcOp.threw /\ dcOp.changed)
          => \E k \in 1..Len(trace) :
                trace[k] = [kind |-> "emit", inst |-> dcOp.inst,
                            name |-> dcOp.name]

\* the parent's validate() was left by an exception thrown inside the
\* child's pass, and both flags are released
C10_Witness ==
    /\ dcOp.op = "validate" /\ dcOp.inst = Parent /\ dcOp.threw
    /\ \E i \in 1..Len(trace) :
          trace[i].kind = "flagSet" /\ trace[i].inst = Child
    /\ \A inst \in Insts : ~validating[inst]

(* ------------------- validate() and its notifications ------------------- *)
\* the names of an instance's properties
Names(inst) == {properties(inst)[i] : i \in 1..Len(properties(inst))}

\* the names a property lists as dependent
Dependents(inst, name) ==
    {property(inst, name).dependent[i] :
        i \in 1..Len(property(inst, name).dependent)}

RECURSIVE DependentClosure(_, _, _)

\* the dependents of the given names, and theirs, to the given depth
DependentClosure(inst, names, depth) ==
    IF depth = 0 THEN {}
    ELSE LET direct == UNION {Dependents(inst, n) : n \in names}
         IN  direct \cup DependentClosure(inst, direct, depth - 1)

\* the notifications of the last task for a property of an instance
EmitCount(t, inst, name) ==
    Count(t, [kind |-> "emit", inst |-> inst, name |-> name])

\* the last task ran a validation pass on the instance
HadPass(t, inst) ==
    \E i \in 1..Len(t) : t[i].kind = "flagReleased" /\ t[i].inst = inst

\* the step changes the validity validate() looks at for the property: for
\* a component the child's isValid() or the instance's own errors under the
\* property's name, for a plain property the errors under its name
ValidityChanged(inst, name) ==
    \/ (name \in errs[inst]) # (name \in errs'[inst])
    \/ /\ property(inst, name).kind = "component"
       /\ IsRef(slots[inst][name])
       /\ (errs[Target(slots[inst][name])] = {})
             # (errs'[Target(slots[inst][name])] = {})

\* the properties whose validity the step changes
ChangedNames(inst) == {n \in Names(inst) : ValidityChanged(inst, n)}

\* the position in a task at which the instance's pass released its flag
ReleasedAt(t, inst) ==
    CHOOSE i \in 1..Len(t) : t[i].kind = "flagReleased" /\ t[i].inst = inst

\* every notification of the instance comes after the release of its flag
EmitsAfterRelease(t, inst) ==
    \A k \in 1..Len(t) :
       (t[k].kind = "emit" /\ t[k].inst = inst) => k > ReleasedAt(t, inst)

\* C11 as stated: a validate() notifies the instance's subscribers only
\* after the validating flag is released, once for each property whose
\* validity changed during the pass and not at all for any other property.
C11_Original ==
    [][dcOp'.op = "validate"
          => \A inst \in Insts :
                HadPass(trace', inst)
                   => /\ EmitsAfterRelease(trace', inst)
                      /\ \A n \in Names(inst) :
                            EmitCount(trace', inst, n)
                               = IF n \in ChangedNames(inst) THEN 1 ELSE 0]_vars

\* C11: a validate() notifies the instance's subscribers only after the
\* validating flag is released; every property whose validity changed
\* during the pass is notified, a property that neither changed validity
\* nor is a dependent (recursively) of one that did is not notified, and a
\* changed property that is no such dependent is notified exactly once.
C11_ChangedAndDependents ==
    [][dcOp'.op = "validate"
          => \A inst \in Insts :
                HadPass(trace', inst)
                   => /\ EmitsAfterRelease(trace', inst)
                      /\ \A n \in Names(inst) :
                            LET changed == n \in ChangedNames(inst)
                                refired ==
                                   n \in DependentClosure(inst,
                                            ChangedNames(inst),
                                            Len(properties(inst)))
                                count == EmitCount(trace', inst, n)
                            IN  /\ changed => count >= 1
                                /\ (~changed /\ ~refired) => count = 0
                                /\ (changed /\ ~refired) => count = 1]_vars

\* a pass on the parent changed the validity of b and of the child: after
\* the release b, its dependent a and the child property were notified
C11_Witness ==
    /\ dcOp.op = "validate" /\ dcOp.inst = Parent /\ ~dcOp.threw
    /\ \E i, j, k, l \in 1..Len(trace) :
          /\ i < j /\ j < k /\ k < l
          /\ trace[i] = [kind |-> "flagReleased", inst |-> Parent, name |-> ""]
          /\ trace[j] = [kind |-> "emit", inst |-> Parent, name |-> "b"]
          /\ trace[k] = [kind |-> "emit", inst |-> Parent, name |-> "a"]
          /\ trace[l] = [kind |-> "emit", inst |-> Parent, name |-> "child"]

(* ------------------------ dependent properties ------------------------ *)
RECURSIVE DependentEmits(_, _, _)

\* the notifications for the given names, each followed by those of its
\* dependents (recursively, to the given depth), in the order of the calls
DependentEmits(inst, names, depth) ==
    IF names = <<>> \/ depth = 0 THEN <<>>
    ELSE << [kind |-> "emit", inst |-> inst, name |-> Head(names)] >>
         \o DependentEmits(inst, property(inst, Head(names)).dependent,
                           depth - 1)
         \o DependentEmits(inst, Tail(names), depth)

\* C12 as stated, for the notifications themselves: a firePropertyChange
\* for a name outside validation (here the command's 'execute' event on the
\* parent) notifies the name and then every dependent of the name, and
\* theirs.
C12_Original ==
    dcOp.op = "commandEvent"
       => trace = DependentEmits(Parent, << "cmd" >>,
                                 Len(properties(Parent)))

(* --------------------- reset(), putAll(), assignment --------------------- *)
\* the writable properties of an instance
WritableNames(inst) == {n \in Names(inst) : property(inst, n).writable}

\* C13 as stated: after reset(newData) every writable property holds
\* newData's value for it when newData has the key, whatever the value, and
\* the property's default otherwise.
C13_Original ==
    (dcOp.op = "reset" /\ ~dcOp.threw)
       => \A n \in WritableNames(Parent) :
             Get(D, Parent, n)
                = IF HasOwnProperty(dcOp.data, n) THEN dcOp.data[n]
                  ELSE property(Parent, n).default

\* the properties a putAll(newData) step assigns a different value
AssignedChanged(newData) ==
    {n \in WritableNames(Parent) :
        HasOwnProperty(newData, n) /\ slots[Parent][n] # newData[n]}

ComponentsHeld(inst) ==
    {Target(slots[inst][c]) : c \in {n \in Components(inst) :
                                        IsRef(slots[inst][n])}}

\* C16 as stated: after clearErrors() without key the instance's own errors
\* and those of every component it holds are empty, and isValid() is true.
C16_Original ==
    (dcOp.op = "clearErrors" /\ ~dcOp.threw)
       => /\ errs[dcOp.inst] = {}
          /\ \A c \in ComponentsHeld(dcOp.inst) : errs[c] = {}
          /\ isValid(D, dcOp.inst)

ExecuteEventsOfStep ==
    Len(SelectSeq(SubSeq(log', Len(log) + 1, Len(log')),
                  LAMBDA e : e \in {"started", "finished"}))

\* the getter has returned at most one Command, the one the instance keeps
SameCommand ==
    /\ Cardinality(returned) <= 1
    /\ cmdIvar # Null => returned = {cmdIvar}
    /\ Len(log) > 0 => cmdIvar # Null

\* C18 as stated: the command property yields the same Command on every
\* access, and every 'execute' event of it (started, then finished) reaches
\* the owner's subscribers as one notification under the property's name,
\* two for each execution.
C18_Original ==
    /\ [](SameCommand /\ Count(log, "started") - Count(log, "finished") \in {0, 1})
    /\ [][EmitCount(trace', Parent, "cmd") = ExecuteEventsOfStep]_vars

\* C18: the command property yields the same Command on every access, and
\* every 'execute' event of it (started, then finished) is passed to the
\* owner's firePropertyChange exactly once: it reaches the subscribers as one
\* notification under the property's name unless the owner is inside a
\* validation pass at that moment, in which case it is suppressed.
C18_CommandProperty ==
    /\ [](SameCommand /\ Count(log, "started") - Count(log, "finished") \in {0, 1})
    /\ [][/\ EmitCount(trace', Parent, "cmd")
               + Count(trace', [kind |-> "suppressed", inst |-> Parent,
                                name |-> "cmd"])
               = ExecuteEventsOfStep
          /\ \A k \in 1..Len(trace') :
                trace'[k] = [kind |-> "suppressed", inst |-> Parent,
                             name |-> "cmd"]
                   => \E i \in 1..(k - 1) :
                         trace'[i] = [kind |-> "flagSet", inst |-> Parent,
                                      name |-> ""]]_vars

\* an execution through the property has started and finished, and the
\* task that finished it notified the owner's subscribers once
C18_Witness ==
    /\ returned = {1}
    /\ Count(log, "started") = 1
    /\ Last(log) = "finished"
    /\ dcOp.op \in {"timer", "settle"}
    /\ EmitCount(trace, Parent, "cmd") = 1

(* ----------------------- overriding declarations ----------------------- *)
\* the declaration of the step declares a command
CommandDeclared ==
    lastDecl'.api = "command" \/ lastDecl'.def.execute

\* C19 as stated: a non-command definition declared under a name that
\* resolves to a command is rejected and changes nothing, and a name that
\* resolves to a command never becomes a writable property.
C19_Original ==
    [][LET pre == Resolve(registry, lastDecl'.type)
           post == Resolve(registry', lastDecl'.type)
       IN  pre.via = "command"
              => /\ ~CommandDeclared
                       => (lastDecl'.threw /\ registry' = registry)
                 /\ ~post.writable]_vars

\* C19: a declaration is rejected exactly when it declares a command under
\* a name that resolves to a descriptor without command configuration, and
\* then the registry is unchanged, so such a name never becomes a command;
\* a non-command definition declared over a command is accepted, and with a
\* setter it registers the name as a writable property.
C19_Overrides ==
    [][LET pre == Resolve(registry, lastDecl'.type)
           post == Resolve(registry', lastDecl'.type)
       IN  /\ lastDecl'.threw
                <=> (CommandDeclared /\ pre # NoDesc /\ ~pre.command)
           /\ lastDecl'.threw => registry' = registry
           /\ (pre # NoDesc /\ ~pre.command) => post.via # "command"
           /\ (pre.via = "command" /\ ~CommandDeclared)
                 => /\ ~lastDecl'.threw
                    /\ lastDecl'.def.set
                          => (post.writable /\ post.via # "command")]_vars

\* a command declared on the subclass over the plain property it inherits
\* was rejected
C19_Witness ==
    /\ lastDecl.threw
    /\ lastDecl.type = "Sub"
    /\ registry["Sub"] = NoDesc
    /\ registry["Base"].via = "plain"

(* ------------------------ the controller's listener ------------------------ *)
\* C20: an attach while already attached warns and changes neither the
\* listener nor the subscriptions; at any time the controller has at most
\* one listener subscribed, the one it keeps, on its current view model, and
\* after unmount it has none, so a change of a view model calls update() at
\* most once and never after unmount.
C20_OneListener ==
    /\ [](/\ Cardinality(ctl.subs) <= 1
          /\ ctl.modelListener # Null
                => ctl.subs = {<< ctl.viewModel, ctl.modelListener >>}
          /\ ctl.modelListener = Null => ctl.subs = {}
          /\ ctl.phase = "unmounted" => ctl.subs = {}
          /\ ctlOp.updates <= 1
          /\ ctl.phase = "unmounted" => ctlOp.updates = 0)
    /\ [][(ctlOp'.op = "attach" /\ ctl.modelListener # Null)
             => /\ ctlOp'.warned
                /\ ctl'.subs = ctl.subs
                /\ ctl'.modelListener = ctl.modelListener]_vars

\* the host called attach on an attached controller: a warning, and the
\* listener subscribed at mount is still the only one
C20_Witness ==
    /\ ctlOp.op = "attach" /\ ctlOp.warned /\ ctlOp.attached
    /\ ctl.subs = {<< 1, 1 >>}
    /\ ctl.modelListener = 1

(* ================== further properties of Command ==================== *)
\* this step is a client call that passed the guard
PassedCall ==
    /\ Len(calls') = Len(calls) + 1
    /\ Last(calls').passed

\* C21: a call of execute() that passed the guard returns with isRunning
\* true, the in-flight result kept and no 'finished' notification emitted,
\* whether the action returned a value, a handle (completed or not) or
\* threw; the command stays running as long as the timer set by that call
\* has not fired, and 'finished' is only ever emitted by a later task.
C21_DeferredFinish ==
    /\ [][ PassedCall
           => ( /\ isRunning'
                /\ promise' # Null
                /\ promise' = Last(calls').out
                /\ finishTimers' = finishTimers + 1
                /\ Count(log', "finished") = Count(log, "finished") ) ]_vars
    /\ [][ Count(log', "finished") > Count(log, "finished")
           => Len(calls') = Len(calls) ]_vars
    /\ [](finishTimers > 0
            => (isRunning /\ promise # Null /\ finishTimers = 1
                /\ Count(log, "finished") = Count(log, "started") - 1))

\* execute() has returned a result that is already rejected (the action
\* threw or returned a failed handle) and the command is still running
C21_Witness ==
    /\ Len(calls) = 1
    /\ calls[1].op = "execute"
    /\ calls[1].passed
    /\ outcomes = <<"rejected">>
    /\ heap[calls[1].out].state = "rejected"
    /\ isRunning
    /\ finishTimers = 1
    /\ Count(log, "finished") = 0

\* the last invocation of the user's action failed and its execution has
\* finished
FailedAndFinished ==
    /\ outcomes # <<>>
    /\ Last(outcomes) = "rejected"
    /\ ~isRunning
    /\ Quiescent

\* C22: with once, a failed execution (the action threw, or its result was
\* rejected) leaves the executed flag unset: the flag is only ever set by a
\* success; after the failed execution has finished canExecute() is the
\* original condition, and an execute() made then passes the guard and
\* runs the action, without resetOnce().
C22_OnceAfterFailure ==
    /\ []((LayerIndex("once") # 0 /\ executed) => successes >= 1)
    /\ []((LayerIndex("once") # 0 /\ FailedAndFinished)
            => ( /\ ~executed
                 /\ (canExecute(W) <=> (hasCondition => condVal)) ))
    /\ [][ ( /\ LayerIndex("once") # 0
             /\ FailedAndFinished
             /\ (hasCondition => condVal)
             /\ IsCall("execute") )
           => ( /\ Last(calls').out # Threw
                /\ isRunning'
                /\ Count(log', "action") = Count(log, "action") + 1 ) ]_vars

\* once: the first execution failed and finished, the second one was
\* accepted and succeeded, with no resetOnce() in between
C22_Witness ==
    /\ LayerIndex("once") # 0
    /\ Len(calls) = 2
    /\ calls[1].passed
    /\ calls[2].passed
    /\ outcomes = <<"rejected", "resolved">>
    /\ successes = 1
    /\ executed
    /\ Count(log, "finished") = 2

\* the handles handed out by invocations of the action
HandedOut == { calls[i].out : i \in 1..Len(calls) }

\* C23 as stated: with debounce, an invocation of the action made while the
\* coalesced call of the previous invocation is still pending returns the
\* handle the previous invocation returned; no underlying call finds the
\* shared handle missing; once nothing is pending every handle handed out
\* is settled, and there were as many underlying calls as handles.
C23_Original ==
    (LayerIndex("debounce") # 0 /\ \A i \in 1..Len(calls) : calls[i].op = "action")
       => /\ \A i \in 2..Len(calls) :
                calls[i].window => calls[i].out = calls[i - 1].out
          /\ ~fault
          /\ Quiescent
                => /\ \A h \in HandedOut : heap[h].state # "pending"
                   /\ invocations = Cardinality(HandedOut)

\* the notifications emitted so far
Notifications == SelectSeq(log, LAMBDA e : e \in {"canExecute", "started", "finished"})

\* C24 as stated: abort() leaves isRunning and the in-flight result as
\* they were, emits no notification and returns the in-flight result.
C24_Original ==
    [][ IsCall("abort")
        => ( /\ isRunning' = isRunning
             /\ promise' = promise
             /\ SelectSeq(log', LAMBDA e : e \in {"canExecute", "started", "finished"})
                   = Notifications
             /\ Last(calls').out = promise ) ]_vars

(* ================ further properties of DataContext ================== *)
\* C25 as stated: whatever reset(), putAll(), validate() and clearErrors()
\* calls were made on the parent, its component properties hold the child
\* DataContexts created at construction, and isValid(), validate() and
\* clearErrors() on the parent do not raise an error.
C25_Original ==
    /\ slots[Parent]["child"] = ChildRef
    /\ slots[Parent]["child2"] = Child2Ref
    /\ (dcOp.inst = Parent /\ dcOp.op \in {"isValid", "validate", "clearErrors"})
          => ~dcOp.threw

\* C26: between tasks isRunning is true exactly when there is an in-flight
\* result; listeners of 'finished' find isRunning false and the in-flight
\* result cleared; the finalization step always finds the in-flight result
\* (no null dereference anywhere).
C26_RunningIffInFlight ==
    /\ (isRunning <=> promise # Null)
    /\ \A f \in finishedSaw : ~f.isRunning /\ f.promise = Null
    /\ ~fault
    /\ (finishTimers > 0 => promise # Null)

\* an execution was cancelled while in flight and finished inside abort():
\* its listeners found the command idle and the result cleared
C26_Witness ==
    /\ Len(calls) = 2
    /\ calls[1].op = "execute" /\ calls[1].passed
    /\ calls[2].op = "abort" /\ calls[2].running
    /\ finishedSaw = {[isRunning |-> FALSE, promise |-> Null]}
    /\ Last(log) = "finished"
    /\ ~isRunning
    /\ promise = Null
    /\ finishTimers = 0

\* C27 as stated: whatever the declared dependent lists are, an assignment
\* (and the firePropertyChange it makes) returns without exhausting the call
\* stack.
C27_Original == ~fireOp.overflow

====
